---- MODULE Spec2Model ----
(***************************************************************************)
(* kedash: the deep clone engine (src/src/object.ts, deepClone) and the    *)
(* value coercion engine (src/src/object.ts, transformObjectValues, and    *)
(* src/src/other.ts, coerceValues) over an explicit heap of containers;    *)
(* the timer functions debounce and throttle (src/src/curry.ts) and        *)
(* setSerialInterval (src/src/other.ts) over a clock and a set of          *)
(* timeouts.                                                               *)
(***************************************************************************)
EXTENDS Integers, Sequences, FiniteSets, TLC

(***************************************************************************)
(* Bounds of the model.                                                    *)
(***************************************************************************)
\* the largest size of an input graph: its containers plus their entries
\* (properties, elements, pairs)
MaxSize == 4
\* the largest number of calls of a debounced or throttled function
MaxCalls == 3
\* the largest number of calls of cancel()
MaxCancels == 1
\* the largest delay, and the time the clock stops at
MaxDelay == 2
MaxTime == 4
\* the largest interval of a throttled function
MaxInterval == 2
\* the number of executions setSerialInterval is followed for
MaxExecs == 3

VARIABLES
  heap,     \* address -> container (kind and entries), inputs and clones
  input,    \* the input graph as it was when the calls began
  root,     \* the value the calls are applied to
  pc,       \* per call: "idle", "run", "done", "mutated"
  hash,     \* per identity map: source address -> clone address
  stack,    \* per call: the frames of the recursion, innermost last
  result,   \* per call: the returned value
  nalloc,   \* per call: the number of containers it allocated
  nsym,     \* per call: the number of symbols it created
  passed,   \* the caller passes one identity map of its own to every call
  fn,       \* the coercion function called: "transformObjectValues" of
            \* object.ts or "coerceValues" of other.ts
  options,  \* its options
  cpc,      \* the coercion call: "idle", "run", "done", "overflow"
  cstack,   \* the frames of its recursion, innermost last
  cresult,  \* the value it returned
  ncalloc,  \* the number of containers it allocated
  delay,    \* debounce: its delay argument
  immediate,\* debounce: its immediate argument
  throwsOn, \* the argument on which the callback throws, 0 if on none
  now,      \* the clock
  timers,   \* the timeouts set and neither fired nor cleared
  timer,    \* debounce: `timer`, 0 for null
  isInvoke, \* debounce: `isInvoke`
  callAt,   \* per call of the debounced function: the time it was made
  promise,  \* per call of the debounced function: the promise it returned
  invoked,  \* the invocations of the callback: time and argument
  cancelled,\* the calls whose timeout was set when cancel() was called
  cancels,  \* the number of calls of cancel()
  interval, \* throttle: its interval argument
  leading,  \* throttle: the option leading
  trailing, \* throttle: the option trailing
  startTime,\* throttle: `startTime`
  isCancelled, \* setSerialInterval: `isCancelled`
  timerId,  \* setSerialInterval: `timerId`, 0 for null
  execs     \* setSerialInterval: the executions of `execute`: when each
            \* started, when and how it completed

cloneVars == <<pc, hash, stack, result, nalloc, nsym, passed>>
coerceVars == <<fn, options, cpc, cstack, cresult, ncalloc>>
debounceVars ==
  <<delay, immediate, throwsOn, now, timers, timer, isInvoke, callAt, promise,
    invoked, cancelled, cancels>>
throttleVars == <<interval, leading, trailing, startTime>>
serialVars == <<isCancelled, timerId, execs>>
timerVars == <<debounceVars, throttleVars, serialVars>>
dataVars == <<heap, input, root, cloneVars, coerceVars>>
vars == <<heap, input, root, cloneVars, coerceVars, timerVars>>

(***************************************************************************)
(* JavaScript values. A container is a reference into the heap; every      *)
(* other value is atomic. All values have one shape: a type tag t, a text  *)
(* s (string content, symbol description, function name) and a number a    *)
(* (heap address of a reference, identity of a symbol).                    *)
(***************************************************************************)
Val(t, s, a) == [t |-> t, s |-> s, a |-> a]
Str(s) == Val("string", s, 0)
Bool(b) == Val("boolean", b, 0)
Null == Val("null", "", 0)
Undefined == Val("undefined", "", 0)
Sym(d, id) == Val("symbol", d, id)
Ref(a) == Val("ref", "", a)
\* an index of an array that holds no element
Hole == Val("hole", "", 0)
\* the key slot of an array element or a Set element
NoKey == Val("none", "", 0)

Entry(k, v) == [k |-> k, v |-> v]
Cell(kind, ents) == [kind |-> kind, ents |-> ents]

Procs == {1, 2}

\* typed.ts predicates
isSymbol(v) == v.t = "symbol"
isPrimitive(v) ==
  v.t \in {"string", "number", "boolean", "null", "undefined", "symbol", "bigint"}
isType(kind, v, h) == v.t = "ref" /\ v.a \in DOMAIN h /\ h[v.a].kind = kind
isArray(v, h) == isType("array", v, h)
isObject(v, h) == isType("object", v, h)

(***************************************************************************)
(* Input graphs: every graph of containers, all reachable from container   *)
(* 1, whose containers and entries together number at most a given size.   *)
(***************************************************************************)
TheSym == Sym("d", 1)
Refs(n) == {Ref(a) : a \in 1..n}
CloneLeaves == {Str("x"), TheSym}
CloneVals(n) == CloneLeaves \cup Refs(n)

RECURSIVE SeqsOf(_, _)
\* the sequences of length k over S
SeqsOf(S, k) ==
  IF k = 0 THEN {<<>>}
  ELSE {Append(s, x) : s \in SeqsOf(S, k - 1), x \in S}

\* the entries of s have different keys, different values
DistinctKeys(s) == \A i, j \in 1..Len(s) : i # j => s[i].k # s[j].k
DistinctVals(s) == \A i, j \in 1..Len(s) : i # j => s[i].v # s[j].v

\* the containers with exactly k entries, in a graph of n containers
CloneCells(n, k) ==
  {Cell("array", s) :
     s \in SeqsOf({Entry(NoKey, v) : v \in CloneVals(n) \cup {Hole}}, k)}
  \cup
  {Cell("set", s) :
     s \in {q \in SeqsOf({Entry(NoKey, v) : v \in CloneVals(n)}, k) :
              DistinctVals(q)}}
  \cup
  {Cell("object", s) :
     s \in {q \in SeqsOf({Entry(key, v) : key \in {Str("p"), TheSym},
                                          v \in CloneVals(n)}, k) :
              DistinctKeys(q)}}
  \cup
  {Cell("map", s) :
     s \in {q \in SeqsOf({Entry(key, v) : key \in {Str("p")} \cup Refs(n),
                                          v \in CloneVals(n)}, k) :
              DistinctKeys(q)}}

\* the property keys of the inputs of the coercion engine
Keys == {"a", "b"}
\* the containers the coercion engine is given, with exactly k entries, in a
\* graph of n containers whose text is the one of txt
CoerceCells(txt, n, k) ==
  LET vals == {txt, Null} \cup Refs(n)
  IN {Cell("array", s) : s \in SeqsOf({Entry(NoKey, v) : v \in vals}, k)}
     \cup
     {Cell("object", s) :
        s \in {q \in SeqsOf({Entry(Str(key), v) : key \in Keys, v \in vals}, k) :
                 DistinctKeys(q)}}
     \cup
     (IF k = 0 THEN {Cell("map", <<>>)} ELSE {})

\* the generators of containers: the one of deepClone's inputs, and one of
\* the coercion engine's inputs for each text
CloneGen == [clone |-> TRUE, txt |-> Null]
CoerceGen(txt) == [clone |-> FALSE, txt |-> txt]
CellsOf(gen, n, k) ==
  IF gen.clone THEN CloneCells(n, k) ELSE CoerceCells(gen.txt, n, k)

RECURSIVE Graphs(_, _, _, _)
\* the sequences of m containers with at most b entries in total
Graphs(gen, n, m, b) ==
  IF m = 0 THEN {<<>>}
  ELSE UNION {LET cs == CellsOf(gen, n, k)
                  gs == Graphs(gen, n, m - 1, b - k)
              IN {Append(g, c) : g \in gs, c \in cs} : k \in 0..b}

\* the addresses a value or an entry refers to
RefsOfVal(v) == IF v.t = "ref" THEN {v.a} ELSE {}
RefsOfCell(c) ==
  UNION {RefsOfVal(c.ents[i].k) \cup RefsOfVal(c.ents[i].v) :
           i \in 1..Len(c.ents)}

RECURSIVE ReachFrom(_, _, _)
\* the addresses reachable in h from the addresses todo, seen included
ReachFrom(h, todo, seen) ==
  IF todo = {} THEN seen
  ELSE LET a == CHOOSE x \in todo : TRUE
           new == (RefsOfCell(h[a]) \cap DOMAIN h) \ (seen \cup {a})
       IN ReachFrom(h, (todo \ {a}) \cup new, seen \cup {a})
Reach(h, v) == ReachFrom(h, RefsOfVal(v) \cap DOMAIN h, {})

\* a graph as a heap: address -> container
AsHeap(g) == [a \in 1..Len(g) |-> g[a]]

InputGraphs(gen, size) ==
  {h \in UNION {{AsHeap(g) : g \in Graphs(gen, n, n, size - n)} :
                  n \in {m \in 1..size : 2 * m - 1 <= size}} :
     Reach(h, Ref(1)) = DOMAIN h}

(***************************************************************************)
(* deepClone (src/src/object.ts:43-101) as a machine: the recursion is a   *)
(* stack of frames, one per container being populated. A frame holds the   *)
(* source container src, its clone dst, the index i of the next entry and, *)
(* inside a Map pair, the already cloned key ck.                           *)
(***************************************************************************)
Frame(src, dst, i, ck) == [src |-> src, dst |-> dst, i |-> i, ck |-> ck]

\* the room each call has for the containers and symbols it creates
ArenaSize == MaxSize + 1
FreshAddr(p) == MaxSize + (p - 1) * ArenaSize + nalloc[p] + 1
FreshSym(p) == 1 + (p - 1) * ArenaSize + nsym[p] + 1

\* the identity map of call p: the map the caller passes, or the default
\* parameter `hash = new WeakMap()`
mapShared(p) == 1
mapOwn(p) == p
mapOf(p) == IF passed THEN 1 ELSE p

\* hash.has(source)
hasNever(p, c) == FALSE
has(p, c) == c.t = "ref" /\ c.a \in DOMAIN hash[mapOf(p)]

\* hash.set(source, clone) on the map m
setForgotten(m, src, dst) == m
set(m, src, dst) == (src :> dst) @@ m

\* the calls deepClone answers without descending: a source already in the
\* identity map, a symbol, a primitive
leafOrObject(p, c) == has(p, c) \/ isSymbol(c) \/ isPrimitive(c) \/ isObject(c, heap)
leaf(p, c) == has(p, c) \/ isSymbol(c) \/ isPrimitive(c)

\* what such a call returns
cloneSymbol(p, c) == Sym(c.s, FreshSym(p))
answer(p, c) ==
  IF has(p, c) THEN Ref(hash[mapOf(p)][c.a])
  ELSE IF isSymbol(c) THEN cloneSymbol(p, c)
  ELSE c

\* the kind of the clone container allocated for the container c
kindOf(c) ==
  IF isType("set", c, heap) THEN "set"
  ELSE IF isType("map", c, heap) THEN "map"
  ELSE IF isArray(c, heap) THEN "array"
  ELSE "object"

IsStringKey(e) == e.k.t = "string"
IsSymbolKey(e) == isSymbol(e.k)
\* the entries of a container in the order deepClone visits them: forEach
\* for a Set, a Map and an array, Object.keys then
\* Object.getOwnPropertySymbols for an object
slots(c) ==
  IF c.kind = "object"
  THEN SelectSeq(c.ents, IsStringKey) \o SelectSeq(c.ents, IsSymbolKey)
  ELSE c.ents

\* Set.prototype.add
add(ents, v) ==
  IF \E j \in 1..Len(ents) : ents[j].v = v THEN ents
  ELSE Append(ents, Entry(NoKey, v))
\* Map.prototype.set, and the assignment obj[key] = v
put(ents, k, v) ==
  IF \E j \in 1..Len(ents) : ents[j].k = k
  THEN [j \in 1..Len(ents) |->
          IF ents[j].k = k THEN Entry(k, v) ELSE ents[j]]
  ELSE Append(ents, Entry(k, v))
\* the assignment arr[i] = v (i counted from 1): the array grows to i
putAt(ents, i, v) ==
  [j \in 1..(IF i > Len(ents) THEN i ELSE Len(ents)) |->
     IF j = i THEN Entry(NoKey, v)
     ELSE IF j <= Len(ents) THEN ents[j]
     ELSE Entry(NoKey, Hole)]

\* the frame f is inside a Map pair whose non-primitive key is not cloned yet
keyOriginal(f, e) == FALSE
onKey(f, e) ==
  heap[f.src].kind = "map" /\ f.ck = NoKey /\ ~isPrimitive(e.k)
\* the value the frame applies deepClone to next
pending(f, e) == IF onKey(f, e) THEN e.k ELSE e.v

\* the clone's entries once the frame f has got val for its entry e
stored(f, e, val) ==
  LET kind == heap[f.src].kind
      ents == heap[f.dst].ents
  IN IF kind = "set" THEN add(ents, val)
     ELSE IF kind = "map"
       THEN put(ents, IF f.ck = NoKey THEN e.k ELSE f.ck, val)
     ELSE IF kind = "array" THEN putAt(ents, f.i, val)
     ELSE put(ents, e.k, val)

Top(p) == stack[p][Len(stack[p])]
Pop(s) == SubSeq(s, 1, Len(s) - 1)
SetTop(s, f) == [s EXCEPT ![Len(s)] = f]

\* the frame f and the heap after deepClone returned val for the entry e
delivered(h, f, e, val) ==
  IF onKey(f, e)
  THEN [heap |-> h, frame |-> [f EXCEPT !.ck = val]]
  ELSE [heap |-> [h EXCEPT ![f.dst].ents = stored(f, e, val)],
        frame |-> [f EXCEPT !.i = @ + 1, !.ck = NoKey]]

\* deepClone(root): lines 43-57 for a leaf, lines 59-83 for a container
deepCloneCall(p) ==
  /\ pc[p] = "idle"
  /\ IF leaf(p, root)
     THEN /\ result' = [result EXCEPT ![p] = answer(p, root)]
          /\ pc' = [pc EXCEPT ![p] = "done"]
          /\ nsym' = [nsym EXCEPT ![p] = IF isSymbol(root) /\ ~has(p, root)
                                          THEN @ + 1 ELSE @]
          /\ UNCHANGED <<heap, hash, stack, nalloc>>
     ELSE /\ nalloc[p] < ArenaSize
          /\ heap' = (FreshAddr(p) :> Cell(kindOf(root), <<>>)) @@ heap
          /\ hash' = [hash EXCEPT
                        ![mapOf(p)] = set(@, root.a, FreshAddr(p))]
          /\ stack' = [stack EXCEPT
                         ![p] = <<Frame(root.a, FreshAddr(p), 1, NoKey)>>]
          /\ nalloc' = [nalloc EXCEPT ![p] = @ + 1]
          /\ pc' = [pc EXCEPT ![p] = "run"]
          /\ UNCHANGED <<result, nsym>>
  /\ UNCHANGED <<input, root, passed, coerceVars,
               timerVars>>

\* one turn of a forEach callback: the recursive call for the next entry of
\* the innermost container (lines 63-65, 73-76, 86-88, 91-97)
deepCloneVisit(p) ==
  /\ pc[p] = "run"
  /\ LET f == Top(p)
         sl == slots(heap[f.src])
     IN /\ f.i <= Len(sl)
        /\ LET e == sl[f.i]
               c == pending(f, e)
           IN IF heap[f.src].kind = "array" /\ e.v = Hole
              THEN \* forEach skips the indexes that hold no element
                   /\ stack' = [stack EXCEPT
                                  ![p] = SetTop(@, [f EXCEPT !.i = @ + 1])]
                   /\ UNCHANGED <<heap, hash, nalloc, nsym>>
              ELSE IF leaf(p, c)
              THEN LET d == delivered(heap, f, e, answer(p, c))
                   IN /\ heap' = d.heap
                      /\ stack' = [stack EXCEPT ![p] = SetTop(@, d.frame)]
                      /\ nsym' = [nsym EXCEPT
                                    ![p] = IF isSymbol(c) /\ ~has(p, c)
                                           THEN @ + 1 ELSE @]
                      /\ (isSymbol(c) /\ ~has(p, c) => nsym[p] < ArenaSize)
                      /\ UNCHANGED <<hash, nalloc>>
              ELSE /\ nalloc[p] < ArenaSize
                   /\ heap' = (FreshAddr(p) :> Cell(kindOf(c), <<>>)) @@ heap
                   /\ hash' = [hash EXCEPT
                                 ![mapOf(p)] = set(@, c.a, FreshAddr(p))]
                   /\ stack' = [stack EXCEPT
                                  ![p] = Append(@, Frame(c.a, FreshAddr(p),
                                                         1, NoKey))]
                   /\ nalloc' = [nalloc EXCEPT ![p] = @ + 1]
                   /\ UNCHANGED nsym
  /\ UNCHANGED <<input, root, passed, pc, result, coerceVars,
               timerVars>>

\* the innermost container is populated: `return newSet`, `return newMap`,
\* `return cloneObject` (lines 66, 77, 100)
deepCloneReturn(p) ==
  /\ pc[p] = "run"
  /\ LET f == Top(p)
         rest == Pop(stack[p])
     IN /\ f.i > Len(slots(heap[f.src]))
        /\ IF rest = <<>>
           THEN /\ result' = [result EXCEPT ![p] = Ref(f.dst)]
                /\ pc' = [pc EXCEPT ![p] = "done"]
                /\ stack' = [stack EXCEPT ![p] = rest]
                /\ UNCHANGED heap
           ELSE LET g == rest[Len(rest)]
                    e == slots(heap[g.src])[g.i]
                    d == delivered(heap, g, e, Ref(f.dst))
                IN /\ heap' = d.heap
                   /\ stack' = [stack EXCEPT ![p] = SetTop(rest, d.frame)]
                   /\ UNCHANGED <<result, pc>>
  /\ UNCHANGED <<input, root, passed, hash, nalloc, nsym, coerceVars,
               timerVars>>

\* the caller assigns to a field, an element or an entry of the clone, as
\* in `cloned.b.c = 10` (src/test/object.test.ts:64-74)
mutateClone(p) ==
  /\ pc[p] = "done"
  /\ \E a \in Reach(heap, result[p]) :
       \/ /\ heap[a].ents = <<>>
          /\ heap' = [heap EXCEPT ![a].ents =
                        <<Entry(IF heap[a].kind \in {"object", "map"}
                                THEN Str("m") ELSE NoKey, Str("m"))>>]
       \/ \E j \in 1..Len(heap[a].ents) :
            heap' = [heap EXCEPT ![a].ents[j].v = Str("m")]
  /\ pc' = [pc EXCEPT ![p] = "mutated"]
  /\ UNCHANGED <<input, root, passed, hash, stack, result, nalloc, nsym, coerceVars,
               timerVars>>

\* no deepClone call has begun
CallsIdle ==
  /\ pc = [p \in Procs |-> "idle"]
  /\ hash = [p \in Procs |-> <<>>]
  /\ stack = [p \in Procs |-> <<>>]
  /\ result = [p \in Procs |-> Undefined]
  /\ nalloc = [p \in Procs |-> 0]
  /\ nsym = [p \in Procs |-> 0]
\* and every call is to be made without a second argument
CloneIdle ==
  /\ CallsIdle
  /\ passed = FALSE

\* the options object {}: every option at its default
\* (src/src/object.ts:115-123, src/src/other.ts:435-443)
DefaultOptions ==
  [deep |-> FALSE, transformer |-> "none", parseNumbers |-> FALSE,
   parseDates |-> FALSE, keys |-> [given |-> FALSE, list |-> <<>>],
   emptyStringToNull |-> FALSE, parseSpecialNumbers |-> FALSE]

\* no coercion call has begun, or is to begin
CoerceIdle ==
  /\ fn = "none"
  /\ options = DefaultOptions
  /\ cpc = "idle"
  /\ cstack = <<>>
  /\ cresult = Undefined
  /\ ncalloc = 0

\* debounce has returned: `let timer = null`, `let isInvoke = false`, and
\* the debounced function has not been called
DebounceIdle ==
  /\ now = 0
  /\ timers = {}
  /\ timer = 0
  /\ isInvoke = FALSE
  /\ callAt = <<>>
  /\ promise = <<>>
  /\ invoked = <<>>
  /\ cancelled = {}
  /\ cancels = 0
\* throttle is not used
ThrottleIdle ==
  /\ interval = 0
  /\ leading = TRUE
  /\ trailing = FALSE
  /\ startTime = 0
\* setSerialInterval is not used
SerialIdle ==
  /\ isCancelled = FALSE
  /\ timerId = 0
  /\ execs = <<>>
\* no timer function is created
TimersIdle ==
  /\ delay = 0
  /\ immediate = FALSE
  /\ throwsOn = 0
  /\ DebounceIdle
  /\ ThrottleIdle
  /\ SerialIdle

InitClone(size) ==
  /\ \/ /\ input \in InputGraphs(CloneGen, size)
        /\ root = Ref(1)
     \/ /\ input = <<>>
        /\ root \in CloneLeaves
  /\ heap = input
  /\ CloneIdle
  /\ CoerceIdle
  /\ TimersIdle

\* one deepClone call, and the caller's use of its result
Init == InitClone(MaxSize)
Next ==
  \/ deepCloneCall(1)
  \/ deepCloneVisit(1)
  \/ deepCloneReturn(1)
  \/ mutateClone(1)
Spec == Init /\ [][Next]_vars

\* two deepClone calls on the same input, interleaved entry by entry
InitReentrant == InitClone(MaxSize - 1)
NextReentrant ==
  \E p \in Procs :
    \/ deepCloneCall(p)
    \/ deepCloneVisit(p)
    \/ deepCloneReturn(p)
SpecReentrant == InitReentrant /\ [][NextReentrant]_vars

\* two deepClone calls on the same input, one after the other, both without
\* a second argument or both with the same map as the second argument
InitSuccessive ==
  /\ \/ /\ input \in InputGraphs(CloneGen, MaxSize - 1)
        /\ root = Ref(1)
     \/ /\ input = <<>>
        /\ root \in CloneLeaves
  /\ heap = input
  /\ passed \in BOOLEAN
  /\ CallsIdle
  /\ CoerceIdle
  /\ TimersIdle
\* the call p is made once the call before it has returned
deepCloneNext(p) ==
  /\ p > 1 => pc[p - 1] = "done"
  /\ deepCloneCall(p)
NextSuccessive ==
  \E p \in Procs :
    \/ deepCloneNext(p)
    \/ deepCloneVisit(p)
    \/ deepCloneReturn(p)
SpecSuccessive == InitSuccessive /\ [][NextSuccessive]_vars

(***************************************************************************)
(* Notions the properties are stated with.                                 *)
(***************************************************************************)
RECURSIVE SumOver(_, _)
\* the sum of f over the set S
SumOver(f(_), S) ==
  IF S = {} THEN 0
  ELSE LET x == CHOOSE y \in S : TRUE
       IN f(x) + SumOver(f, S \ {x})

Returned(p) == pc[p] \in {"done", "mutated"}
InputAddrs == DOMAIN input
\* the containers of call p's result
CloneAddrs(p) == Reach(heap, result[p])

\* the number of deepClone calls the entry e of a container of kind makes
CallsOf(kind, e) == IF kind = "map" /\ ~isPrimitive(e.k) THEN 2 ELSE 1
CallsFrom(c, i) ==
  LET sl == slots(c)
      n(j) == CallsOf(c.kind, sl[j])
  IN SumOver(n, i..Len(sl))
\* a bound on the steps call p still takes: 2 and one per call for every
\* container not yet in its identity map, the calls left in its frames, and
\* its frames
Measure(p) ==
  LET unreg(a) == 2 + CallsFrom(input[a], 1)
      left(k) == CallsFrom(input[stack[p][k].src], stack[p][k].i)
                 - (IF stack[p][k].ck = NoKey THEN 0 ELSE 1)
  IN SumOver(unreg, InputAddrs \ DOMAIN hash[mapOf(p)])
     + SumOver(left, 1..Len(stack[p]))
     + Len(stack[p])

Missing == Entry(NoKey, Val("missing", "", 0))
\* the entry of the clone container d that corresponds to the entry e, at
\* position j of the visiting order, of its source container of kind
Counterpart(kind, e, j, d) ==
  IF kind = "object"
  THEN IF \E i \in 1..Len(d.ents) : d.ents[i].k = e.k
       THEN d.ents[CHOOSE i \in 1..Len(d.ents) : d.ents[i].k = e.k]
       ELSE Missing
  ELSE IF j <= Len(d.ents) THEN d.ents[j] ELSE Missing

\* w is what call p's identity map makes of v: the clone registered for a
\* container, a new symbol of the same description for a symbol, v itself
\* for any other primitive
ImageVal(p, v, w) ==
  IF v.t = "ref"
  THEN v.a \in DOMAIN hash[mapOf(p)] /\ w = Ref(hash[mapOf(p)][v.a])
  ELSE IF isSymbol(v) THEN isSymbol(w) /\ w.s = v.s /\ w.a # v.a
  ELSE w = v
\* a key is kept as it is unless it is a container
ImageKey(p, k, w) == IF k.t = "ref" THEN ImageVal(p, k, w) ELSE w = k

\* the length of an array without its trailing holes
RECURSIVE Trimmed(_)
Trimmed(ents) ==
  IF ents # <<>> /\ ents[Len(ents)].v = Hole
  THEN Trimmed(SubSeq(ents, 1, Len(ents) - 1))
  ELSE Len(ents)

\* the clone registered for the source container a is its image, entry by
\* entry
IsImage(p, a) ==
  LET c == input[a]
      d == heap[hash[mapOf(p)][a]]
      sl == slots(c)
  IN /\ d.kind = c.kind
     /\ Len(d.ents) = IF c.kind = "array" THEN Trimmed(c.ents) ELSE Len(sl)
     /\ \A j \in 1..Len(d.ents) :
          LET ce == Counterpart(c.kind, sl[j], j, d)
          IN /\ ImageVal(p, sl[j].v, ce.v)
             /\ ImageKey(p, sl[j].k, ce.k)

\* call p returned the clone of the whole input graph, made of containers
\* of its own
IsCloneOfInput(p) ==
  /\ ImageVal(p, root, result[p])
  /\ Reach(input, root) \subseteq DOMAIN hash[mapOf(p)]
  /\ \A a \in Reach(input, root) :
       /\ hash[mapOf(p)][a] \notin InputAddrs
       /\ IsImage(p, a)
  /\ \A a, b \in Reach(input, root) :
       a # b => hash[mapOf(p)][a] # hash[mapOf(p)][b]

RECURSIVE DeepEqual(_, _, _)
\* deep equality of v and w, as toEqual decides it: the same primitive, or
\* containers of the same kind with equal keys and deep-equal contents; a
\* pair of containers already under comparison is taken as equal
DeepEqual(v, w, seen) ==
  IF v.t # "ref" \/ w.t # "ref" THEN v = w
  ELSE IF <<v.a, w.a>> \in seen THEN TRUE
  ELSE LET c == heap[v.a]
           d == heap[w.a]
           s2 == seen \cup {<<v.a, w.a>>}
       IN /\ c.kind = d.kind
          /\ Len(c.ents) = Len(d.ents)
          /\ IF c.kind = "array"
             THEN \A j \in 1..Len(c.ents) :
                    DeepEqual(c.ents[j].v, d.ents[j].v, s2)
             ELSE \A i \in 1..Len(c.ents) : \E j \in 1..Len(d.ents) :
                    /\ DeepEqual(c.ents[i].k, d.ents[j].k, s2)
                    /\ DeepEqual(c.ents[i].v, d.ents[j].v, s2)

RECURSIVE TwinsFrom(_, _)
\* the pairs <<v, w>> of a value of the input and the value at the same
\* path of the result, over all paths
TwinsFrom(todo, seen) ==
  IF todo = {} THEN seen
  ELSE LET t == CHOOSE x \in todo : TRUE
           v == t[1]
           w == t[2]
           below ==
             IF v.t = "ref" /\ w.t = "ref" /\ v.a \in DOMAIN input
                /\ w.a \in DOMAIN heap
             THEN LET c == input[v.a]
                      sl == slots(c)
                  IN UNION {LET ce == Counterpart(c.kind, sl[j], j, heap[w.a])
                            IN {<<sl[j].v, ce.v>>, <<sl[j].k, ce.k>>} :
                              j \in 1..Len(sl)}
             ELSE {}
       IN TwinsFrom((todo \ {t}) \cup (below \ (seen \cup {t})),
                    seen \cup {t})
Twins(p) == TwinsFrom({<<root, result[p]>>}, {})

\* a container of the input is reachable from itself
Cyclic == \E a \in InputAddrs : a \in ReachFrom(input, RefsOfCell(input[a]), {})
\* the number of entry slots of the input that refer to the container a
InDegree(a) ==
  LET n(b) == Cardinality({j \in 1..Len(input[b].ents) :
                             input[b].ents[j].v = Ref(a)})
              + Cardinality({j \in 1..Len(input[b].ents) :
                               input[b].ents[j].k = Ref(a)})
  IN SumOver(n, InputAddrs)

(***************************************************************************)
(* C1: deepClone terminates on every input graph, cyclic ones included: a  *)
(* call that is running can always take a step, and every step lowers the  *)
(* natural number Measure. In its result every reference is to a clone,    *)
(* never to a container of the input, and a path that leads back to the    *)
(* input root leads, in the result, back to the result itself              *)
(* (r.self is r, and r is not a).                                          *)
(***************************************************************************)
C1_Resolved(p) ==
  \A t \in Twins(p) :
    t[1].t = "ref" =>
      /\ t[2].t = "ref"
      /\ t[2].a \notin InputAddrs
      /\ (t[1] = root => t[2] = result[p])
C1_CycleTermination ==
  /\ [](\A p \in Procs :
          /\ pc[p] = "run" => ENABLED (deepCloneVisit(p) \/ deepCloneReturn(p))
          /\ pc[p] = "done" => C1_Resolved(p))
  /\ [][\A p \in Procs :
          pc[p] = "run" /\ <<stack[p], pc[p]>>' # <<stack[p], pc[p]>>
            => Measure(p)' < Measure(p)]_vars
\* a = {}; a.self = a has been cloned
C1_Witness ==
  /\ pc[1] = "done"
  /\ input = <<Cell("object", <<Entry(Str("p"), Ref(1))>>)>>
  /\ heap[result[1].a].ents = <<Entry(Str("p"), result[1])>>
  /\ result[1] # root

(***************************************************************************)
(* C2: the clone shares no container with the input at any level, and an   *)
(* assignment to any field, element or entry of the clone, nested or not,  *)
(* leaves every container of the input as it was.                          *)
(***************************************************************************)
C2_CloneIndependence ==
  /\ pc[1] = "done" => CloneAddrs(1) \cap InputAddrs = {}
  /\ \A a \in InputAddrs : heap[a] = input[a]
\* a nested container of the clone has been assigned to
C2_Witness ==
  /\ pc[1] = "mutated"
  /\ \E a \in CloneAddrs(1) \ {result[1].a} :
       \E j \in 1..Len(heap[a].ents) : heap[a].ents[j].v = Str("m")

\* no symbol is a value of the input (a property value, an element, a Map
\* value, or the input itself)
NoSymbolValue ==
  /\ ~isSymbol(root)
  /\ \A a \in InputAddrs : \A j \in 1..Len(input[a].ents) :
       ~isSymbol(input[a].ents[j].v)
\* no array of the input ends with an index that holds no element
NoTrailingHole ==
  \A a \in InputAddrs :
    input[a].kind = "array" => Trimmed(input[a].ents) = Len(input[a].ents)

(***************************************************************************)
(* C3: the result of deepClone is deep-equal to its input (the same kind   *)
(* of container at every position, the same keys, the same order and       *)
(* length of arrays, equal primitive leaves), for every input built from   *)
(* primitives, objects, arrays, Maps and Sets; stated here for the inputs  *)
(* in which no value is a symbol.                                          *)
(***************************************************************************)
C3_DeepEqual ==
  pc[1] = "done" /\ NoSymbolValue => DeepEqual(root, result[1], {})

\* what the code does keep: the result is deep-equal to the input when,
\* besides, no array of the input ends with an index that holds no element
DeepEqualWhenDense ==
  pc[1] = "done" /\ NoSymbolValue /\ NoTrailingHole
    => DeepEqual(root, result[1], {})

(***************************************************************************)
(* C4: the clone has the sharing topology of the input: the values at two  *)
(* paths of the result are the same container exactly when the values at   *)
(* the same two paths of the input are the same container.                 *)
(***************************************************************************)
C4_SharingPreserved ==
  pc[1] = "done" =>
    \A t, u \in Twins(1) :
      t[1].t = "ref" /\ u[1].t = "ref" =>
        /\ t[2].t = "ref" /\ u[2].t = "ref"
        /\ (t[1] = u[1] <=> t[2] = u[2])
\* a container that two entries refer to, in a graph of two containers,
\* has been cloned
C4_Witness ==
  /\ pc[1] = "done"
  /\ Cardinality(InputAddrs) = 2
  /\ InDegree(2) = 2
  /\ Cardinality({t \in Twins(1) : t[1].t = "ref"}) = 2

(***************************************************************************)
(* C5: the clone of a Set is a Set of the same size whose elements are the *)
(* clones of the elements; the clone of a Map is a Map of the same size    *)
(* whose values are the clones of the values and whose keys are the keys   *)
(* themselves when primitive and their clones otherwise.                   *)
(***************************************************************************)
C5_IsFreshClone(p, v, w) ==
  /\ ImageVal(p, v, w)
  /\ v.t = "ref" => w.a \notin InputAddrs /\ IsImage(p, v.a)
C5_KindPreserved ==
  pc[1] = "done" =>
    \A a \in Reach(input, root) :
      input[a].kind \in {"set", "map"} =>
        /\ a \in DOMAIN hash[mapOf(1)]
        /\ LET c == input[a]
               d == heap[hash[mapOf(1)][a]]
           IN /\ d.kind = c.kind
              /\ Len(d.ents) = Len(c.ents)
              /\ \A j \in 1..Len(c.ents) :
                   /\ C5_IsFreshClone(1, c.ents[j].v, d.ents[j].v)
                   /\ IF isPrimitive(c.ents[j].k) \/ c.kind = "set"
                      THEN d.ents[j].k = c.ents[j].k
                      ELSE C5_IsFreshClone(1, c.ents[j].k, d.ents[j].k)
\* a Map with a container as a key has been cloned
C5_Witness ==
  /\ pc[1] = "done"
  /\ \E a \in InputAddrs :
       /\ input[a].kind = "map"
       /\ \E j \in 1..Len(input[a].ents) : input[a].ents[j].k.t = "ref"

(***************************************************************************)
(* C6: two deepClone calls interleaved on the same input, each with its    *)
(* own identity map, do not interfere: each returns the clone of the whole *)
(* input that it returns when run alone, the two results have no container *)
(* in common, and the input is left as it was.                             *)
(***************************************************************************)
C6_Reentrant ==
  /\ \A p \in Procs : pc[p] = "done" => IsCloneOfInput(p)
  /\ pc[1] = "done" /\ pc[2] = "done" => CloneAddrs(1) \cap CloneAddrs(2) = {}
  /\ \A a \in InputAddrs : heap[a] = input[a]
\* both calls are inside a nested container at the same time
C6_Witness ==
  /\ pc[1] = "run" /\ pc[2] = "run"
  /\ Len(stack[1]) = 2 /\ Len(stack[2]) = 2

(***************************************************************************)
(* C25: a container is registered before it is populated: whenever a       *)
(* recursive call is made for a child of a container c, the identity map   *)
(* already maps c to its fresh clone, so a reference to c met below c       *)
(* resolves to that clone and the cloning of c is never entered again.     *)
(***************************************************************************)
C25_RegisteredBeforePopulated ==
  \A i \in 1..Len(stack[1]) :
    LET f == stack[1][i]
    IN /\ f.src \in DOMAIN hash[1]
       /\ hash[1][f.src] = f.dst
       /\ f.dst \notin InputAddrs
       /\ \A j \in 1..Len(stack[1]) : j # i => stack[1][j].src # f.src
       /\ \A j \in 1..Len(heap[f.dst].ents) :
            LET w == heap[f.dst].ents[j]
            IN /\ w.v.t = "ref" => w.v.a \notin InputAddrs
               /\ w.k.t = "ref" => w.k.a \notin InputAddrs
\* below the root container, a reference to the root has been met: the
\* innermost clone holds the root's clone while the root is being populated
C25_Witness ==
  /\ pc[1] = "run"
  /\ Len(stack[1]) >= 2
  /\ \E j \in 1..Len(heap[Top(1).dst].ents) :
       heap[Top(1).dst].ents[j].v = Ref(stack[1][1].dst)
  /\ \E j \in 1..Len(input[Top(1).src].ents) :
       input[Top(1).src].ents[j].v = Ref(stack[1][1].src)

(***************************************************************************)
(* C26: Map keys: in the cloned Map a primitive key is the key itself and  *)
(* a non-primitive key is its clone, obtained through the same identity    *)
(* map: a key that is reachable elsewhere in the input, the Map itself as  *)
(* its own key or value included, is the same clone in both places.        *)
(***************************************************************************)
C26_MapKeys ==
  pc[1] = "done" =>
    \A a \in Reach(input, root) :
      input[a].kind = "map" =>
        \A t \in Twins(1) :
          t[1] = Ref(a) =>
            /\ t[2].t = "ref"
            /\ Len(heap[t[2].a].ents) = Len(input[a].ents)
            /\ \A j \in 1..Len(input[a].ents) :
                 LET k == input[a].ents[j].k
                     ck == heap[t[2].a].ents[j].k
                 IN IF isPrimitive(k) THEN ck = k
                    ELSE /\ ck.t = "ref"
                         /\ ck.a \notin InputAddrs
                         /\ \A u \in Twins(1) : u[1] = k => u[2] = ck
\* a Map has been cloned that has a key that is a container to which
\* another entry of the input refers too
C26_Witness ==
  /\ pc[1] = "done"
  /\ \E a \in InputAddrs :
       /\ input[a].kind = "map"
       /\ \E j \in 1..Len(input[a].ents) :
            /\ input[a].ents[j].k.t = "ref"
            /\ InDegree(input[a].ents[j].k.a) >= 2

(***************************************************************************)
(* C30: the identity map across calls: when no map is passed each call     *)
(* has a fresh map of its own, and two successive calls on a container     *)
(* return distinct clones; when the same map is passed to two successive   *)
(* calls, the second call on the container already cloned returns the very *)
(* clone of the first call and allocates nothing.                          *)
(***************************************************************************)
C30_MapLifecycle ==
  /\ ~passed /\ pc[2] = "idle" => hash[2] = <<>>
  /\ passed /\ root.t = "ref" => pc[2] # "run"
  /\ pc[1] = "done" /\ pc[2] = "done" /\ root.t = "ref" =>
       /\ result[1].t = "ref" /\ result[1].a \notin InputAddrs
       /\ IF passed
          THEN /\ result[2] = result[1]
               /\ nalloc[2] = 0 /\ nsym[2] = 0
               /\ DOMAIN heap = InputAddrs \cup CloneAddrs(1)
          ELSE /\ result[2].t = "ref" /\ result[2].a \notin InputAddrs
               /\ result[2] # result[1]
               /\ CloneAddrs(1) \cap CloneAddrs(2) = {}
\* the second of two calls that were passed the same map has returned, for
\* an input with a nested container
C30_Witness ==
  /\ passed
  /\ pc[1] = "done" /\ pc[2] = "done"
  /\ root.t = "ref"
  /\ nalloc[1] >= 2
  /\ result[2] = result[1]

(***************************************************************************)
(* The coercion engine: transformObjectValues (src/src/object.ts:111-229)  *)
(* and coerceValues (src/src/other.ts:434-549). The two differ in the test *)
(* that sends a value back unchanged.                                      *)
(***************************************************************************)
Num(s) == Val("number", s, 0)
Date(s) == Val("date", s, 0)
\* a function or an object that Object.prototype holds
Builtin(name) == Val("function", name, 0)

\* the typeof operator
typeof(v) ==
  IF v.t \in {"ref", "null", "date"} THEN "object" ELSE v.t

Char(s, i) == SubSeq(s, i, i)
Digits == {"0", "1", "2", "3", "4", "5", "6", "7", "8", "9"}
DigitVal ==
  ("0" :> 0) @@ ("1" :> 1) @@ ("2" :> 2) @@ ("3" :> 3) @@ ("4" :> 4) @@
  ("5" :> 5) @@ ("6" :> 6) @@ ("7" :> 7) @@ ("8" :> 8) @@ ("9" :> 9)
AllDigits(s) == Len(s) >= 1 /\ \A i \in 1..Len(s) : Char(s, i) \in Digits

\* /^-?\d+(\.\d+)?$/.test(s)
NUMERIC_PATTERN(s) ==
  LET u == IF Len(s) >= 1 /\ Char(s, 1) = "-" THEN SubSeq(s, 2, Len(s)) ELSE s
      dots == {i \in 1..Len(u) : Char(u, i) = "."}
  IN IF dots = {} THEN AllDigits(u)
     ELSE /\ Cardinality(dots) = 1
          /\ LET d == CHOOSE i \in dots : TRUE
             IN /\ AllDigits(SubSeq(u, 1, d - 1))
                /\ AllDigits(SubSeq(u, d + 1, Len(u)))

\* s has the shape: a digit where the shape has d, the same character
\* elsewhere
MatchShape(s, shape) ==
  /\ Len(s) = Len(shape)
  /\ \A i \in 1..Len(s) :
       IF Char(shape, i) = "d" THEN Char(s, i) \in Digits
       ELSE Char(s, i) = Char(shape, i)
\* /^\d{4}-\d{2}-\d{2}(T\d{2}:\d{2}:\d{2}(\.\d{3})?Z?)?$/.test(s)
ISO_DATE_PATTERN(s) ==
  \E shape \in {"dddd-dd-dd", "dddd-dd-ddTdd:dd:dd", "dddd-dd-ddTdd:dd:ddZ",
                "dddd-dd-ddTdd:dd:dd.ddd", "dddd-dd-ddTdd:dd:dd.dddZ"} :
    MatchShape(s, shape)

TwoDigits(s, i) == 10 * DigitVal[Char(s, i)] + DigitVal[Char(s, i + 1)]
\* the date made of any text of the ISO shape
validAlways(s) == TRUE
\* !Number.isNaN(new Date(s).getTime()) for a text of the ISO shape: the
\* month is 01 to 12, the day 01 to 31, the time at most 24:00:00
ValidDate(s) ==
  /\ TwoDigits(s, 6) \in 1..12
  /\ TwoDigits(s, 9) \in 1..31
  /\ Len(s) > 10 =>
       /\ TwoDigits(s, 15) \in 0..59
       /\ TwoDigits(s, 18) \in 0..59
       /\ \/ TwoDigits(s, 12) \in 0..23
          \/ /\ TwoDigits(s, 12) = 24
             /\ TwoDigits(s, 15) = 0
             /\ TwoDigits(s, 18) = 0
             /\ (Len(s) >= 23 => SubSeq(s, 21, 23) = "000")

RECURSIVE StripLeft(_)
\* digits without their leading zeros, one digit at least
StripLeft(s) ==
  IF Len(s) > 1 /\ Char(s, 1) = "0" THEN StripLeft(SubSeq(s, 2, Len(s))) ELSE s
RECURSIVE StripRight(_)
\* the digits of a fraction without their trailing zeros
StripRight(s) ==
  IF Len(s) >= 1 /\ Char(s, Len(s)) = "0"
  THEN StripRight(SubSeq(s, 1, Len(s) - 1))
  ELSE s
\* Number(s) for a text of the numeric shape, as the decimal text of the
\* number
Number(s) ==
  LET neg == Char(s, 1) = "-"
      u == IF neg THEN SubSeq(s, 2, Len(s)) ELSE s
      dots == {i \in 1..Len(u) : Char(u, i) = "."}
      d == IF dots = {} THEN Len(u) + 1 ELSE CHOOSE i \in dots : TRUE
      int == StripLeft(SubSeq(u, 1, d - 1))
      frac == StripRight(SubSeq(u, d + 1, Len(u)))
  IN Num((IF neg THEN "-" ELSE "") \o int
         \o (IF frac = "" THEN "" ELSE "." \o frac))

\* the literal table of a call (object.ts:142-154, other.ts:462-474)
tableWithoutUndefined(o) ==
  ("true" :> Bool("true")) @@ ("false" :> Bool("false")) @@ ("null" :> Null)
simpleMap(o) ==
  LET base == ("true" :> Bool("true")) @@ ("false" :> Bool("false"))
              @@ ("null" :> Null) @@ ("undefined" :> Undefined)
  IN IF o.parseSpecialNumbers
     THEN base @@ ("NaN" :> Num("NaN")) @@ ("Infinity" :> Num("Infinity"))
               @@ ("-Infinity" :> Num("-Infinity"))
     ELSE base
\* what every object literal inherits from Object.prototype
ObjectPrototype ==
  [name \in {"constructor", "toString", "toLocaleString", "valueOf",
             "hasOwnProperty", "isPrototypeOf", "propertyIsEnumerable",
             "__proto__", "__defineGetter__", "__defineSetter__",
             "__lookupGetter__", "__lookupSetter__"} |-> Builtin(name)]
\* `val in map`: an own property or an inherited one
in(val, map) == val \in DOMAIN map \/ val \in DOMAIN ObjectPrototype
\* map[val]
get(map, val) ==
  IF val \in DOMAIN map THEN map[val]
  ELSE IF val \in DOMAIN ObjectPrototype THEN ObjectPrototype[val]
  ELSE Undefined

\* the transformers a caller may pass: none, or one that turns the string
\* under the key "a" into "T", or into "true", or into the object the call
\* is made on, and returns any other value as it is
Transformers == {"none", "toT", "toTrue", "toRoot"}
transformer(name, val, key) ==
  IF name \in {"toT", "toTrue", "toRoot"} /\ typeof(val) = "string"
     /\ key = "a"
  THEN IF name = "toT" THEN Str("T")
       ELSE IF name = "toTrue" THEN Str("true")
       ELSE root
  ELSE val

\* `if (transformer) { ...; if (transformed !== val) return transformed }`
changedNever(o, val, key) == FALSE
changedAlways(o, val, key) == o.transformer # "none"
changed(o, val, key) ==
  o.transformer # "none" /\ transformer(o.transformer, val, key) # val

\* `if (deep && val !== null && typeof val === 'object')`
recursesNever(o, val) == FALSE
recurses(o, val) == o.deep /\ val # Null /\ typeof(val) = "object"

\* transformValue (object.ts:171-213), coerceValue (other.ts:491-533): the
\* value v of the property, or rec when v is to be coerced recursively
transformValue(o, val, key) ==
  IF changed(o, val, key)
  THEN [rec |-> FALSE, v |-> transformer(o.transformer, val, key)]
  ELSE IF typeof(val) = "string"
  THEN [rec |-> FALSE,
        v |-> IF o.emptyStringToNull /\ val.s = "" THEN Null
              ELSE IF in(val.s, simpleMap(o)) THEN get(simpleMap(o), val.s)
              ELSE IF o.parseDates /\ ISO_DATE_PATTERN(val.s)
                      /\ ValidDate(val.s)
                THEN Date(val.s)
              ELSE IF o.parseNumbers /\ NUMERIC_PATTERN(val.s)
                THEN Number(val.s)
              ELSE val]
  ELSE [rec |-> recurses(o, val), v |-> val]

\* the calls that return their argument as it is: null and undefined, what
\* is no plain object and no array for transformObjectValues
\* (object.ts:126-133), what typeof does not call an object for coerceValues
\* (other.ts:446-453), and an array when deep is off (object.ts:136-137,
\* other.ts:456-457)
returnsData(f, data) ==
  \/ data \in {Null, Undefined}
  \/ IF f = "transformObjectValues"
     THEN ~isObject(data, heap) /\ ~isArray(data, heap)
     ELSE typeof(data) # "object"
  \/ isArray(data, heap) /\ ~options.deep

\* Object.entries(data), and the elements data.map goes through
entries(c) == IF c.kind \in {"object", "array"} THEN c.ents ELSE <<>>

\* the room of the coercion call for the containers it creates, and the
\* depth at which its recursion exhausts the call stack
CoerceArena == 2 * MaxSize + 2
StackLimit == MaxSize + 1
FreshCoerce == MaxSize + 2 * ArenaSize + ncalloc + 1

\* where the call on data builds its result: `data.map(...)` and
\* `const result = {}` make a new container
sameObject(data) == data.a
newResult(data) == FreshCoerce

CFrame(src, dst, i) == [src |-> src, dst |-> dst, i |-> i]
CTop == cstack[Len(cstack)]

\* the entries of the result container once it has got val for the entry e
cstored(f, e, val) ==
  IF heap[f.src].kind = "array"
  THEN Append(heap[f.dst].ents, Entry(NoKey, val))
  ELSE put(heap[f.dst].ents, e.k, val)

\* the recursive call on data: it returns data, or begins a new result
\* container (`data.map`, `const result = {}`), or exhausts the call stack
CoerceDescend(data) ==
  IF Len(cstack) >= StackLimit
  THEN /\ cpc' = "overflow"
       /\ UNCHANGED <<heap, cstack, cresult, ncalloc>>
  ELSE /\ ncalloc < CoerceArena
       /\ heap' = (newResult(data) :>
                     Cell(IF isArray(data, heap) THEN "array" ELSE "object",
                          <<>>)) @@ heap
       /\ cstack' = Append(cstack, CFrame(data.a, newResult(data), 1))
       /\ ncalloc' = ncalloc + 1
       /\ UNCHANGED <<cpc, cresult>>

\* the innermost result container gets val for its next entry
CoerceStore(val) ==
  LET f == CTop
      e == entries(heap[f.src])[f.i]
  IN /\ heap' = [heap EXCEPT ![f.dst].ents = cstored(f, e, val)]
     /\ cstack' = [cstack EXCEPT ![Len(cstack)].i = @ + 1]
     /\ UNCHANGED <<cpc, cresult, ncalloc>>

\* the call f(root, options)
CoerceCall(f) ==
  /\ cpc = "idle"
  /\ fn = "none"
  /\ fn' = f
  /\ IF returnsData(f, root)
     THEN /\ cresult' = root
          /\ cpc' = "done"
          /\ UNCHANGED <<heap, cstack, ncalloc>>
     ELSE /\ heap' = (newResult(root) :>
                        Cell(IF isArray(root, heap) THEN "array" ELSE "object",
                             <<>>)) @@ heap
          /\ cstack' = <<CFrame(root.a, newResult(root), 1)>>
          /\ ncalloc' = ncalloc + 1
          /\ cpc' = "run"
          /\ UNCHANGED cresult
  /\ UNCHANGED <<input, root, options, cloneVars,
               timerVars>>
transformObjectValues == CoerceCall("transformObjectValues")
coerceValues == CoerceCall("coerceValues")

\* keys.includes(key)
includesAny(list, key) == TRUE
includes(list, key) == \E j \in 1..Len(list) : list[j] = key

\* one turn of data.map (object.ts:138, other.ts:458) or of the loop over
\* Object.entries (object.ts:218-226, other.ts:538-546)
coerceVisit ==
  /\ cpc = "run"
  /\ LET f == CTop
         es == entries(heap[f.src])
     IN /\ f.i <= Len(es)
        /\ LET e == es[f.i]
           IN IF heap[f.src].kind = "array"
              THEN IF returnsData(fn, e.v) THEN CoerceStore(e.v)
                   ELSE CoerceDescend(e.v)
              ELSE IF options.keys.given
                      /\ ~includes(options.keys.list, e.k.s)
              THEN CoerceStore(e.v)
              ELSE LET t == transformValue(options, e.v, e.k.s)
                   IN IF t.rec /\ ~returnsData(fn, t.v)
                      THEN CoerceDescend(t.v)
                      ELSE CoerceStore(t.v)
  /\ UNCHANGED <<input, root, fn, options, cloneVars,
               timerVars>>

\* `return data.map(...)`, `return result`
coerceReturn ==
  /\ cpc = "run"
  /\ LET f == CTop
         rest == Pop(cstack)
     IN /\ f.i > Len(entries(heap[f.src]))
        /\ IF rest = <<>>
           THEN /\ cresult' = Ref(f.dst)
                /\ cpc' = "done"
                /\ cstack' = rest
                /\ UNCHANGED heap
           ELSE LET g == rest[Len(rest)]
                    e == entries(heap[g.src])[g.i]
                IN /\ heap' = [heap EXCEPT ![g.dst].ents = cstored(g, e, Ref(f.dst))]
                   /\ cstack' = [rest EXCEPT ![Len(rest)].i = @ + 1]
                   /\ UNCHANGED <<cresult, cpc>>
  /\ UNCHANGED <<input, root, fn, options, ncalloc, cloneVars,
               timerVars>>

(***************************************************************************)
(* Inputs of the coercion engine: graphs of plain objects, arrays and      *)
(* Maps whose leaves are null or one text, or a primitive alone.           *)
(***************************************************************************)
Texts ==
  {"true", "false", "null", "undefined", "x", "", "constructor", "42",
   "NaN", "2024-01-01", "2024-13-45"}

\* the options the calls are made with
OptionSamples ==
  {DefaultOptions,
   [DefaultOptions EXCEPT !.deep = TRUE],
   [DefaultOptions EXCEPT !.deep = TRUE, !.parseNumbers = TRUE,
                          !.parseDates = TRUE, !.emptyStringToNull = TRUE,
                          !.parseSpecialNumbers = TRUE],
   [DefaultOptions EXCEPT !.transformer = "toT",
                          !.keys = [given |-> TRUE, list |-> <<"a">>]],
   [DefaultOptions EXCEPT !.deep = TRUE,
                          !.keys = [given |-> TRUE, list |-> <<"a">>]],
   [DefaultOptions EXCEPT !.deep = TRUE, !.transformer = "toTrue",
                          !.parseNumbers = TRUE, !.parseDates = TRUE,
                          !.emptyStringToNull = TRUE,
                          !.parseSpecialNumbers = TRUE],
   [DefaultOptions EXCEPT !.deep = TRUE, !.transformer = "toRoot"]}

InitCoerce(size, Options) ==
  /\ \E t \in Texts :
       \/ /\ input \in InputGraphs(CoerceGen(Str(t)), size)
          /\ root = Ref(1)
       \/ /\ input = <<>>
          /\ root \in {Str(t), Null, Undefined}
  /\ heap = input
  /\ options \in Options
  /\ fn = "none"
  /\ cpc = "idle"
  /\ cstack = <<>>
  /\ cresult = Undefined
  /\ ncalloc = 0
  /\ CloneIdle
  /\ TimersIdle

\* one call of the coercion engine
NextCoerce ==
  \/ transformObjectValues
  \/ coerceValues
  \/ coerceVisit
  \/ coerceReturn
SpecCoerce == InitCoerce(MaxSize, OptionSamples) /\ [][NextCoerce]_vars

\* the literal tokens and the values they stand for
LiteralTokens == {"true", "false", "null", "undefined"}
LiteralOf(t) ==
  IF t = "true" THEN Bool("true")
  ELSE IF t = "false" THEN Bool("false")
  ELSE IF t = "null" THEN Null
  ELSE Undefined
\* the value of the property key of the object at address a, if it has one
HasProp(a, key) == \E j \in 1..Len(heap[a].ents) : heap[a].ents[j].k = key
Prop(a, key) ==
  heap[a].ents[CHOOSE j \in 1..Len(heap[a].ents) : heap[a].ents[j].k = key].v
\* the input of the call is a plain object
ObjectInput == root.t = "ref" /\ input[root.a].kind = "object"

(***************************************************************************)
(* C7: with the default options, every string property of the input object *)
(* whose text is 'true', 'false', 'null' or 'undefined' is true, false,    *)
(* null or undefined in the result.                                        *)
(***************************************************************************)
C7_LiteralTable ==
  cpc = "done" /\ options = DefaultOptions /\ ObjectInput =>
    /\ cresult.t = "ref"
    /\ \A j \in 1..Len(input[root.a].ents) :
         LET e == input[root.a].ents[j]
         IN e.v.t = "string" /\ e.v.s \in LiteralTokens =>
              /\ HasProp(cresult.a, e.k)
              /\ Prop(cresult.a, e.k) = LiteralOf(e.v.s)
\* {a: 'undefined', b: 'undefined'} has become {a: undefined, b: undefined}
C7_Witness ==
  /\ cpc = "done" /\ options = DefaultOptions
  /\ input = <<Cell("object", <<Entry(Str("a"), Str("undefined")),
                                Entry(Str("b"), Str("undefined"))>>)>>
  /\ heap[cresult.a].ents = <<Entry(Str("a"), Undefined),
                              Entry(Str("b"), Undefined)>>

\* the input is made of primitives, plain objects and arrays
PlainInput == \A a \in InputAddrs : input[a].kind \in {"object", "array"}
\* no string of the input is a literal token
NoLiteralToken ==
  /\ root.t = "string" => root.s \notin LiteralTokens
  /\ \A a \in InputAddrs : \A j \in 1..Len(input[a].ents) :
       input[a].ents[j].v.t = "string" =>
         input[a].ents[j].v.s \notin LiteralTokens

(***************************************************************************)
(* C8: with the options {}, the result is deep-equal to the input for any  *)
(* input in which no string is one of the literal tokens 'true', 'false',  *)
(* 'null', 'undefined'; stated here for the inputs made of primitives,     *)
(* plain objects and arrays.                                               *)
(***************************************************************************)
C8_NoOpCoercion ==
  cpc = "done" /\ options = DefaultOptions /\ NoLiteralToken /\ PlainInput =>
    DeepEqual(root, cresult, {})

(***************************************************************************)
(* C9: an array-valued property of the input object is left as it is in    *)
(* shallow mode ({arr: ['true']} keeps 'true'), and in deep mode is a new  *)
(* array in which every element is coerced ({arr: ['true']} gives          *)
(* {arr: [true]}).                                                         *)
(***************************************************************************)
C9_ArrayDeepShallow ==
  cpc = "done" /\ ObjectInput
  /\ options \in {DefaultOptions, [DefaultOptions EXCEPT !.deep = TRUE]} =>
    \A j \in 1..Len(input[root.a].ents) :
      LET e == input[root.a].ents[j]
      IN isArray(e.v, input) =>
           /\ HasProp(cresult.a, e.k)
           /\ LET r == Prop(cresult.a, e.k)
                  src == input[e.v.a].ents
              IN IF ~options.deep THEN r = e.v /\ heap[r.a] = input[r.a]
                 ELSE /\ isArray(r, heap)
                      /\ Len(heap[r.a].ents) = Len(src)
                      /\ \A i \in 1..Len(src) :
                           src[i].v.t = "string"
                           /\ src[i].v.s \in LiteralTokens =>
                             heap[r.a].ents[i].v = LiteralOf(src[i].v.s)

(***************************************************************************)
(* C10: an input that is neither an object nor an array is returned as it  *)
(* is, except that a string is coerced as the same string is when it is    *)
(* the value of a property; stated here for the calls without a           *)
(* transformer.                                                            *)
(***************************************************************************)
C10_TopLevelLeaf ==
  cpc = "done" /\ root.t # "ref" /\ options.transformer = "none" =>
    cresult = IF root.t = "string"
              THEN transformValue(options, root, "a").v
              ELSE root

(***************************************************************************)
(* A step of the entries loop that assigns result[key]: the property it    *)
(* visits, and the value it assigns.                                       *)
(***************************************************************************)
StoresProperty ==
  /\ cpc = "run"
  /\ heap[CTop.src].kind = "object"
  /\ Len(cstack') = Len(cstack)
  /\ cstack' # cstack
VisitedEntry == entries(heap[CTop.src])[CTop.i]
StoredValue ==
  LET es == heap'[CTop.dst].ents IN es[Len(es)].v
IsLiteralString(v) == v.t = "string" /\ v.s \in LiteralTokens

\* the key is in the list options.keys
Allowed(key) ==
  key \in {options.keys.list[j] : j \in 1..Len(options.keys.list)}

(***************************************************************************)
(* C11: when options.keys is given, a property whose key is not in the     *)
(* list keeps its original value, and only the properties whose key is in  *)
(* the list are coerced ({active: 'true', other: 'true'} with keys         *)
(* ['active'] gives {active: true, other: 'true'}).                        *)
(***************************************************************************)
C11_KeyAllowList ==
  [][StoresProperty /\ options.keys.given =>
       LET e == VisitedEntry
       IN IF Allowed(e.k.s)
          THEN options.transformer = "none" /\ IsLiteralString(e.v) =>
                 StoredValue = LiteralOf(e.v.s)
          ELSE StoredValue = e.v]_vars
\* {a: 'true', b: 'true'} with keys ['a'] has become {a: true, b: 'true'}
C11_Witness ==
  /\ cpc = "done" /\ options.keys.given /\ options.transformer = "none"
  /\ input = <<Cell("object", <<Entry(Str("a"), Str("true")),
                                Entry(Str("b"), Str("true"))>>)>>
  /\ heap[cresult.a].ents = <<Entry(Str("a"), Bool("true")),
                              Entry(Str("b"), Str("true"))>>

\* the step assigns result[key] for a key that options.keys lets through
CoercesProperty == StoresProperty /\ (options.keys.given => Allowed(VisitedEntry.k.s))
\* what the caller's transformer returns for the property visited
Transformed == transformer(options.transformer, VisitedEntry.v, VisitedEntry.k.s)

(***************************************************************************)
(* C12: when the transformer returns, for a property, a value different    *)
(* from its input, that value is the property's result as it is: no       *)
(* built-in rule (empty string, literal table, date, number) is applied    *)
(* to it, whichever flags are set.                                         *)
(***************************************************************************)
C12_TransformerPrecedence ==
  [][CoercesProperty /\ options.transformer # "none"
       /\ Transformed # VisitedEntry.v => StoredValue = Transformed]_vars
\* with every flag set, {a: '42'} has become {a: 'true'}: neither 42, the
\* number rule applied to the input, nor true, the table applied to the
\* transformer's output
C12_Witness ==
  /\ cpc = "done" /\ options.transformer = "toTrue" /\ options.parseNumbers
  /\ input = <<Cell("object", <<Entry(Str("a"), Str("42"))>>)>>
  /\ heap[cresult.a].ents = <<Entry(Str("a"), Str("true"))>>

(***************************************************************************)
(* C13: when the transformer returns its input unchanged, the property's   *)
(* result is the one of the same call without a transformer: the built-in  *)
(* rules are evaluated as if no transformer were configured.               *)
(***************************************************************************)
C13_TransformerDeferral ==
  [][CoercesProperty /\ options.transformer # "none"
       /\ Transformed = VisitedEntry.v =>
         StoredValue =
           transformValue([options EXCEPT !.transformer = "none"],
                          VisitedEntry.v, VisitedEntry.k.s).v]_vars
\* the transformer returned 'true' for 'true' under the key a, and the
\* table made it true
C13_Witness ==
  /\ cpc = "done" /\ options.transformer = "toTrue"
  /\ input = <<Cell("object", <<Entry(Str("a"), Str("true"))>>)>>
  /\ heap[cresult.a].ents = <<Entry(Str("a"), Bool("true"))>>

\* the step assigns result[key] for a string that the transformer, if any,
\* did not change
CoercesString ==
  /\ CoercesProperty
  /\ VisitedEntry.v.t = "string"
  /\ Transformed = VisitedEntry.v
\* the texts of the special numbers
SpecialNumbers == {"NaN", "Infinity", "-Infinity"}
\* a text of the ISO shape whose month or day no calendar has
OutOfCalendar(s) ==
  /\ ISO_DATE_PATTERN(s)
  /\ (TwoDigits(s, 6) \notin 1..12 \/ TwoDigits(s, 9) \notin 1..31)
\* the rules in the order of the claim: the value of the string s
RuleOrder(o, s) ==
  IF o.emptyStringToNull /\ s = "" THEN Null
  ELSE IF s \in LiteralTokens THEN LiteralOf(s)
  ELSE IF o.parseSpecialNumbers /\ s \in SpecialNumbers THEN Num(s)
  ELSE IF o.parseDates /\ ISO_DATE_PATTERN(s) /\ ~OutOfCalendar(s) THEN Date(s)
  ELSE IF o.parseNumbers /\ NUMERIC_PATTERN(s) THEN Number(s)
  ELSE Str(s)

(***************************************************************************)
(* C14: for a string that the transformer did not change, the first rule   *)
(* that applies wins, in the order: empty string to null (with             *)
(* emptyStringToNull), literal table (with 'NaN', 'Infinity', '-Infinity'  *)
(* only when parseSpecialNumbers is set), ISO date (with parseDates),      *)
(* number (with parseNumbers), unchanged; a rule whose flag is off is      *)
(* never applied.                                                          *)
(***************************************************************************)
C14_RuleOrder ==
  [][CoercesString => StoredValue = RuleOrder(options, VisitedEntry.v.s)]_vars

\* the same, for the strings that name no property of Object.prototype
RuleOrderOwn ==
  [][CoercesString /\ VisitedEntry.v.s \notin DOMAIN ObjectPrototype =>
       StoredValue = RuleOrder(options, VisitedEntry.v.s)]_vars

(***************************************************************************)
(* C15: a string that fails the pattern of the date rule or of the number  *)
(* rule, or that has the shape of a date and is no valid date, falls       *)
(* through to the next rule: once past the empty-string rule and the       *)
(* table, it becomes a number if the number rule applies and is left       *)
(* unchanged otherwise, and the call goes on.                              *)
(***************************************************************************)
C15_GracefulFallback ==
  [][LET s == VisitedEntry.v.s
     IN /\ cpc = "run" /\ heap[CTop.src].kind = "object"
        /\ CTop.i <= Len(entries(heap[CTop.src]))
        /\ (options.keys.given => Allowed(VisitedEntry.k.s))
        /\ VisitedEntry.v.t = "string" /\ Transformed = VisitedEntry.v
        /\ ~(options.emptyStringToNull /\ s = "")
        /\ ~in(s, simpleMap(options))
        /\ (~ISO_DATE_PATTERN(s) \/ OutOfCalendar(s))
        => /\ StoresProperty
           /\ StoredValue = IF options.parseNumbers /\ NUMERIC_PATTERN(s)
                             THEN Number(s) ELSE VisitedEntry.v]_vars
\* with parseDates and parseNumbers set, {a: '2024-13-45'} is as it was
C15_Witness ==
  /\ cpc = "done" /\ options.parseDates /\ options.parseNumbers
  /\ options.transformer = "none"
  /\ input = <<Cell("object", <<Entry(Str("a"), Str("2024-13-45"))>>)>>
  /\ heap[cresult.a].ents = <<Entry(Str("a"), Str("2024-13-45"))>>

(***************************************************************************)
(* C16: every call of the coercion engine, shallow or deep, completes      *)
(* after a number of steps bounded by the size of its input, also when a   *)
(* container of the input is reachable from itself: the call never         *)
(* exhausts the call stack, and its recursion is never deeper than the     *)
(* number of containers of the input.                                      *)
(***************************************************************************)
C16_CoercionTerminates ==
  /\ cpc # "overflow"
  /\ Len(cstack) <= Cardinality(InputAddrs)

\* what the code does keep: the recursion is deeper than the input only in
\* deep mode and on an input in which a container is reachable from itself
TerminatesUnlessCyclic ==
  ~(options.deep /\ Cyclic) => C16_CoercionTerminates

\* the entries loop is at a property, and options.keys lets its key through
VisitsProperty ==
  /\ cpc = "run"
  /\ heap[CTop.src].kind = "object"
  /\ CTop.i <= Len(entries(heap[CTop.src]))
VisitsAllowed ==
  VisitsProperty /\ (options.keys.given => Allowed(VisitedEntry.k.s))
\* the step makes the recursive call on the value v: the call returns v as
\* it is, or begins the result container of v, or exhausts the call stack
RecursiveCallOn(v) ==
  IF returnsData(fn, v) THEN StoresProperty /\ StoredValue = v
  ELSE \/ cpc' = "overflow"
       \/ /\ Len(cstack') = Len(cstack) + 1
          /\ cstack'[Len(cstack')].src = v.a
          /\ cstack'[Len(cstack')].dst \notin DOMAIN heap

(***************************************************************************)
(* C27: in deep mode the key allow-list is applied again at every nesting  *)
(* level: a property whose key is not in the list is copied as the very    *)
(* same value, with no transformer, no leaf rule and no recursion applied, *)
(* also when it is a container with keys of the list below it.             *)
(***************************************************************************)
C27_AllowListAtEveryLevel ==
  [][VisitsProperty /\ options.deep /\ options.keys.given
       /\ ~Allowed(VisitedEntry.k.s)
       => /\ StoresProperty
          /\ StoredValue = VisitedEntry.v
          /\ ncalloc' = ncalloc
          /\ cpc' = cpc]_vars
\* with keys ['a'], {a: {b: root}} has become {a: {b: root}}: one level
\* down, b still holds the input object itself, which has the key a
C27_Witness ==
  /\ cpc = "done" /\ options.deep /\ options.keys.given
  /\ input = <<Cell("object", <<Entry(Str("a"), Ref(2))>>),
               Cell("object", <<Entry(Str("b"), Ref(1))>>)>>
  /\ LET inner == heap[cresult.a].ents[1].v
     IN /\ inner.t = "ref" /\ inner.a \notin InputAddrs
        /\ heap[inner.a].ents = <<Entry(Str("b"), Ref(1))>>

(***************************************************************************)
(* C28: in deep mode a property value that is a non-null container after   *)
(* the transformer has been applied, a container that the transformer      *)
(* returned in place of the original value included, is coerced            *)
(* recursively with the same options.                                      *)
(***************************************************************************)
C28_RecursesAfterTransformer ==
  [][VisitsAllowed /\ options.deep /\ Transformed.t = "ref"
       => RecursiveCallOn(Transformed)]_vars

\* C28 as the code has it: in deep mode a property value that is a non-null
\* container, and that the transformer, if there is one, returned as it
\* is, is coerced recursively with the same options; a container that the
\* transformer returned in place of the original value is the property's
\* result as it is.
C28_RecursesUnlessTransformed ==
  [][VisitsAllowed /\ options.deep /\ Transformed.t = "ref"
       => IF Transformed = VisitedEntry.v
          THEN RecursiveCallOn(Transformed)
          ELSE StoresProperty /\ StoredValue = Transformed]_vars
\* with a transformer, the call is inside the container that is the value
\* of a property
C28_Witness ==
  /\ cpc = "run" /\ options.deep /\ options.transformer # "none"
  /\ Len(cstack) >= 2
  /\ heap[cstack[1].src].kind = "object"

(***************************************************************************)
(* C29: the coercion functions never change their input: during and after  *)
(* a call every container of the input holds the keys and values it held;  *)
(* for a plain object the result is a newly allocated object; and in       *)
(* shallow mode a nested container is, in the result, the same reference   *)
(* as in the input.                                                        *)
(***************************************************************************)
C29_InputUntouched ==
  /\ \A a \in InputAddrs : heap[a] = input[a]
  /\ cpc = "done" /\ ObjectInput =>
       /\ cresult.t = "ref" /\ cresult.a \notin InputAddrs
       /\ ~options.deep =>
            \A j \in 1..Len(input[root.a].ents) :
              LET e == input[root.a].ents[j]
              IN e.v.t = "ref" =>
                   /\ HasProp(cresult.a, e.k)
                   /\ Prop(cresult.a, e.k) = e.v
\* a shallow call has returned, for an object with a nested container and
\* a property that was coerced
C29_Witness ==
  /\ cpc = "done" /\ ~options.deep /\ ObjectInput
  /\ \E j \in 1..Len(input[root.a].ents) : input[root.a].ents[j].v.t = "ref"
  /\ \E j \in 1..Len(input[root.a].ents) :
       LET e == input[root.a].ents[j]
       IN Prop(cresult.a, e.k) # e.v

(***************************************************************************)
(* debounce (src/src/curry.ts:61-107). Time is a clock that a timeout      *)
(* stops when it is due: a due timeout fires before the clock moves on and *)
(* before the debounced function or cancel() is called again. Call k of    *)
(* the debounced function passes the argument k.                           *)
(***************************************************************************)
\* a promise not settled, and the callback: it throws on the argument
\* throwsOn and returns twice its argument otherwise; the promise settled
\* accordingly
Pending == [st |-> "pending", v |-> 0]
callback(arg) ==
  IF arg = throwsOn THEN [st |-> "rejected", v |-> arg]
  ELSE [st |-> "resolved", v |-> 2 * arg]

\* setTimeout(..., delay) at the time t: when the timeout is due
dueNow(t, d) == t
dueAt(t, d) == t + d
\* clearTimeout(id)
neverCleared(ts, id) == ts
clearTimeout(ts, id) == {t \in ts : t.id # id}
\* `if (timer !== null) clearTimeout(timer)`
cleared == IF timer # 0 THEN clearTimeout(timers, timer) ELSE timers

NoTimerDue == \A t \in timers : t.due > now

\* a call of the debounced function (curry.ts:71-98)
subDebounce ==
  /\ Len(callAt) < MaxCalls
  /\ NoTimerDue
  /\ LET k == Len(callAt) + 1
     IN /\ callAt' = Append(callAt, now)
        /\ IF immediate /\ ~isInvoke
           THEN /\ invoked' = Append(invoked, [at |-> now, arg |-> k])
                /\ promise' = Append(promise, callback(k))
                /\ isInvoke' = TRUE
                /\ timers' = cleared
                /\ UNCHANGED timer
           ELSE /\ timers' = cleared \cup
                    {[id |-> k, due |-> dueAt(now, delay), args |-> k]}
                /\ timer' = k
                /\ promise' = Append(promise, Pending)
                /\ UNCHANGED <<invoked, isInvoke>>
  /\ UNCHANGED <<delay, immediate, throwsOn, now, cancelled, cancels,
                 dataVars, throttleVars, serialVars>>

\* the function given to setTimeout runs (curry.ts:86-96)
onTimeout ==
  /\ \E t \in timers :
       /\ t.due <= now
       /\ invoked' = Append(invoked, [at |-> now, arg |-> t.args])
       /\ promise' = [promise EXCEPT ![t.id] = callback(t.args)]
       /\ timers' = timers \ {t}
  /\ timer' = 0
  /\ isInvoke' = FALSE
  /\ UNCHANGED <<delay, immediate, throwsOn, now, callAt, cancelled, cancels,
                 dataVars, throttleVars, serialVars>>

\* subDebounce.cancel() (curry.ts:100-104)
cancel ==
  /\ cancels < MaxCancels
  /\ NoTimerDue
  /\ timers' = cleared
  /\ timer' = 0
  /\ isInvoke' = FALSE
  /\ cancelled' = cancelled \cup {t.id : t \in timers}
  /\ cancels' = cancels + 1
  /\ UNCHANGED <<delay, immediate, throwsOn, now, callAt, promise, invoked,
                 dataVars, throttleVars, serialVars>>

\* a unit of time passes
tick ==
  /\ now < MaxTime
  /\ NoTimerDue
  /\ now' = now + 1
  /\ UNCHANGED <<delay, immediate, throwsOn, timers, timer, isInvoke, callAt,
                 promise, invoked, cancelled, cancels, dataVars, throttleVars,
                 serialVars>>

\* debounce(callback, delay, immediate)
InitDebounce ==
  /\ delay \in 0..MaxDelay
  /\ immediate \in BOOLEAN
  /\ throwsOn \in 0..MaxCalls
  /\ DebounceIdle
  /\ ThrottleIdle
  /\ SerialIdle
  /\ heap = <<>> /\ input = <<>> /\ root = Null
  /\ CloneIdle
  /\ CoerceIdle
NextDebounce ==
  \/ subDebounce
  \/ onTimeout
  \/ cancel
  \/ tick
SpecDebounce == InitDebounce /\ [][NextDebounce]_vars

\* the calls made, and the arguments the callback has been invoked with
Calls == 1..Len(callAt)
InvokedArgs == {invoked[j].arg : j \in 1..Len(invoked)}
\* the call k was followed by another less than `delay` later
Superseded(k) == k < Len(callAt) /\ callAt[k + 1] < callAt[k] + delay

C18_CancelDropsPending ==
  \A j \in 1..Len(invoked) : invoked[j].arg \notin cancelled
\* a call was pending when cancel() was called, its delay has passed, and
\* the callback has not been invoked
C18_Witness ==
  /\ invoked = <<>>
  /\ \E k \in cancelled : now > callAt[k] + delay

(***************************************************************************)
(* C19: debounce with immediate = true: the first call invokes the         *)
(* callback at once, and a second call made within `delay` of it is        *)
(* ignored: the callback is never invoked for it.                          *)
(***************************************************************************)
C19_ImmediateLeading ==
  immediate =>
    /\ Len(callAt) >= 1 =>
         Len(invoked) >= 1 /\ invoked[1] = [at |-> callAt[1], arg |-> 1]
    /\ cancels = 0 /\ Len(callAt) >= 2 /\ callAt[2] < callAt[1] + delay =>
         2 \notin InvokedArgs

(***************************************************************************)
(* C20: every promise the debounced function returned is settled in the    *)
(* end, with the callback's return value or with the error it throws: a    *)
(* promise that is pending has a timeout set that will settle it, and a    *)
(* settled one holds what the callback gave for the call's argument.       *)
(***************************************************************************)
C20_PromiseSettles ==
  \A k \in Calls :
    IF promise[k].st = "pending" THEN \E t \in timers : t.id = k
    ELSE promise[k] = callback(k)

(***************************************************************************)
(* throttle (src/src/curry.ts:119-168), over the same clock, timeouts,     *)
(* calls, promises and invocations. Date.now() is the clock counted from   *)
(* an epoch that is larger than any interval.                              *)
(***************************************************************************)
Epoch == MaxInterval + 1
DateNow == Epoch + now

\* `if (!leading && startTime === 0) startTime = nowTime`
started(nowTime) ==
  IF ~leading /\ startTime = 0 THEN nowTime ELSE startTime
\* `const waitTime = interval - (nowTime - startTime)`
waitTime(nowTime) == interval - (nowTime - started(nowTime))
\* the arguments the timeout set by call k invokes the callback with
argsOf(k) == k

\* a call of the throttled function (curry.ts:130-159)
subThrottle ==
  /\ Len(callAt) < MaxCalls
  /\ NoTimerDue
  /\ LET k == Len(callAt) + 1
         nowTime == DateNow
     IN /\ callAt' = Append(callAt, now)
        /\ IF waitTime(nowTime) <= 0
           THEN /\ timers' = cleared
                /\ invoked' = Append(invoked, [at |-> now, arg |-> k])
                /\ promise' = Append(promise, callback(k))
                /\ IF callback(k).st = "rejected"
                   THEN \* the callback threw: control is in the catch clause
                        /\ startTime' = started(nowTime)
                        /\ UNCHANGED timer
                   ELSE /\ startTime' = nowTime
                        /\ timer' = 0
           ELSE /\ startTime' = started(nowTime)
                /\ promise' = Append(promise, Pending)
                /\ UNCHANGED invoked
                /\ IF trailing /\ timer = 0
                   THEN /\ timers' = timers \cup
                            {[id |-> k, due |-> now + waitTime(nowTime),
                              args |-> argsOf(k)]}
                        /\ timer' = k
                   ELSE UNCHANGED <<timers, timer>>
  /\ UNCHANGED <<delay, immediate, throwsOn, now, isInvoke, cancelled, cancels,
                 interval, leading, trailing, dataVars, serialVars>>

\* the function given to setTimeout runs (curry.ts:148-153); when the
\* callback throws, the rest of it does not run
onThrottleTimeout ==
  /\ \E t \in timers :
       /\ t.due <= now
       /\ timers' = timers \ {t}
       /\ invoked' = Append(invoked, [at |-> now, arg |-> t.args])
       /\ IF callback(t.args).st = "rejected"
          THEN UNCHANGED <<promise, startTime, timer>>
          ELSE /\ promise' = [promise EXCEPT ![t.id] = callback(t.args)]
               /\ startTime' = DateNow
               /\ timer' = 0
  /\ UNCHANGED <<delay, immediate, throwsOn, now, isInvoke, callAt, cancelled,
                 cancels, interval, leading, trailing, dataVars, serialVars>>

\* subThrottle.cancel() (curry.ts:161-165)
cancelThrottle ==
  /\ cancels < MaxCancels
  /\ NoTimerDue
  /\ timers' = cleared
  /\ startTime' = 0
  /\ timer' = 0
  /\ cancelled' = cancelled \cup {t.id : t \in timers}
  /\ cancels' = cancels + 1
  /\ UNCHANGED <<delay, immediate, throwsOn, now, isInvoke, callAt, promise,
                 invoked, interval, leading, trailing, dataVars, serialVars>>

\* throttle(callback, interval, {leading, trailing})
InitThrottle ==
  /\ interval \in 0..MaxInterval
  /\ leading \in BOOLEAN
  /\ trailing \in BOOLEAN
  /\ startTime = 0
  /\ throwsOn \in 0..MaxCalls
  /\ delay = 0 /\ immediate = FALSE
  /\ DebounceIdle
  /\ SerialIdle
  /\ heap = <<>> /\ input = <<>> /\ root = Null
  /\ CloneIdle
  /\ CoerceIdle
NextThrottle ==
  \/ subThrottle
  \/ onThrottleTimeout
  \/ cancelThrottle
  \/ tick
SpecThrottle == InitThrottle /\ [][NextThrottle]_vars

(***************************************************************************)
(* C21: throttle: without cancel, with any combination of leading and      *)
(* trailing, any two invocations of the callback are at least `interval`   *)
(* apart.                                                                  *)
(***************************************************************************)
C21_ThrottleSpacing ==
  cancels = 0 =>
    \A i, j \in 1..Len(invoked) :
      i < j => invoked[j].at - invoked[i].at >= interval

\* what the code does keep: the same, when the callback does not throw
SpacingUnlessThrown ==
  cancels = 0 /\ throwsOn = 0 =>
    \A i, j \in 1..Len(invoked) :
      i < j => invoked[j].at - invoked[i].at >= interval

(***************************************************************************)
(* C22: throttle with trailing: true: after a leading invocation, a call   *)
(* inside the interval is not executed at once, and when the interval has  *)
(* elapsed one trailing invocation runs with the arguments of the last     *)
(* call made inside the interval (after the calls 1, 2, 3, the call 2 is   *)
(* ignored and 3 is executed on the trailing edge).                        *)
(***************************************************************************)
C22_TrailingLastArgs ==
  ( /\ leading /\ trailing /\ cancels = 0 /\ throwsOn = 0
    /\ Len(callAt) = 3 /\ callAt[1] = callAt[3] /\ interval > 0 )
    => /\ Len(invoked) >= 1 /\ invoked[1] = [at |-> callAt[1], arg |-> 1]
       /\ Len(invoked) >= 2 =>
            invoked[2] = [at |-> callAt[1] + interval, arg |-> 3]
       /\ Len(invoked) < 2 => now <= callAt[1] + interval

(***************************************************************************)
(* setSerialInterval (src/src/other.ts:36-78), over the same clock and     *)
(* timeouts. execs lists the executions started: when each started, when   *)
(* it completed, and how. An execution takes any time, or never completes. *)
(***************************************************************************)
Running(t) == [start |-> t, end |-> t, st |-> "pending"]

\* `if (isCancelled) return` and `if (!isCancelled)`
goesOnAlways(c) == TRUE
goesOn(c) == ~c
\* `setTimeout(scheduleNext, delay)`: the timeout that starts execution k
timeoutAtOnce(k, t, d) == [id |-> k, due |-> t, args |-> 0]
timeoutOf(k, t, d) == [id |-> k, due |-> t + d, args |-> 0]

\* scheduleNext, called by a timeout, up to `await execute()`
\* (other.ts:44-49)
scheduleNext ==
  /\ \E t \in timers :
       /\ t.due <= now
       /\ timers' = timers \ {t}
       /\ IF goesOn(isCancelled)
          THEN /\ Len(execs) < MaxExecs
               /\ execs' = Append(execs, Running(now))
          ELSE UNCHANGED execs
  /\ UNCHANGED <<delay, immediate, throwsOn, now, timer, isInvoke, callAt,
                 promise, invoked, cancelled, cancels, isCancelled, timerId,
                 throttleVars, dataVars>>

\* execute() resolves or rejects and scheduleNext goes on after the await
\* (other.ts:49-58)
executeSettles ==
  /\ execs # <<>>
  /\ execs[Len(execs)].st = "pending"
  /\ \E st \in {"resolved", "rejected"} :
       execs' = [execs EXCEPT ![Len(execs)] =
                   [start |-> @.start, end |-> now, st |-> st]]
  /\ IF goesOn(isCancelled)
     THEN /\ timers' = timers \cup {timeoutOf(Len(execs) + 1, now, delay)}
          /\ timerId' = Len(execs) + 1
     ELSE UNCHANGED <<timers, timerId>>
  /\ UNCHANGED <<delay, immediate, throwsOn, now, timer, isInvoke, callAt,
                 promise, invoked, cancelled, cancels, isCancelled,
                 throttleVars, dataVars>>

\* the cancel function returned (other.ts:70-76)
cancelSerial ==
  /\ cancels < MaxCancels
  /\ NoTimerDue
  /\ isCancelled' = TRUE
  /\ timers' = IF timerId # 0 THEN clearTimeout(timers, timerId) ELSE timers
  /\ timerId' = 0
  /\ cancelled' = cancelled \cup {t.id : t \in timers}
  /\ cancels' = cancels + 1
  /\ UNCHANGED <<delay, immediate, throwsOn, now, timer, isInvoke, callAt,
                 promise, invoked, execs, throttleVars, dataVars>>

\* setSerialInterval(execute, delay, immediate) (other.ts:36-67)
InitSerial ==
  /\ delay \in 0..MaxDelay
  /\ immediate \in BOOLEAN
  /\ isCancelled = FALSE
  /\ IF immediate
     THEN /\ execs = <<Running(0)>>
          /\ timers = {}
          /\ timerId = 0
     ELSE /\ execs = <<>>
          /\ timers = {timeoutOf(1, 0, delay)}
          /\ timerId = 1
  /\ throwsOn = 0
  /\ now = 0
  /\ timer = 0
  /\ isInvoke = FALSE
  /\ callAt = <<>>
  /\ promise = <<>>
  /\ invoked = <<>>
  /\ cancelled = {}
  /\ cancels = 0
  /\ ThrottleIdle
  /\ heap = <<>> /\ input = <<>> /\ root = Null
  /\ CloneIdle
  /\ CoerceIdle
NextSerial ==
  \/ scheduleNext
  \/ executeSettles
  \/ cancelSerial
  \/ tick
SpecSerial == InitSerial /\ [][NextSerial]_vars

(***************************************************************************)
(* C23: setSerialInterval is serial: an execution is never started while   *)
(* the previous one is pending; the next one starts only after the         *)
(* previous one has completed, resolved or rejected, and `delay` has       *)
(* elapsed since.                                                          *)
(***************************************************************************)
C23_Serial ==
  \A i \in 1..Len(execs) :
    i < Len(execs) =>
      /\ execs[i].st \in {"resolved", "rejected"}
      /\ execs[i + 1].start >= execs[i].end + delay

\* a second execution was started after a first one that took time and
\* was rejected
C23_Witness ==
  /\ Len(execs) >= 2
  /\ delay > 0
  /\ execs[1].st = "rejected"
  /\ execs[1].end > execs[1].start

(***************************************************************************)
(* C24: once cancel() has been called, no execution is started any more,   *)
(* whether a timeout was pending, an execution was in flight or the first  *)
(* execution had not started yet.                                          *)
(***************************************************************************)
C24_CancelStops == [][cancels > 0 => Len(execs') = Len(execs)]_vars

\* cancel() was called while an execution was in flight; it completed and
\* more than `delay` has passed since with no further execution
C24_Witness ==
  /\ cancels > 0
  /\ cancelled = {}
  /\ execs # <<>>
  /\ execs[Len(execs)].st # "pending"
  /\ now > execs[Len(execs)].end + delay

====
